---- MODULE Spec2Model ----
(***************************************************************************)
(* Model of x/wasm/client/cli/tx.go: the transaction commands of the wasm  *)
(* module's CLI.  One invocation of the CLI runs one command handler       *)
(* (RunE) from its arguments and flags to its returned error; the message  *)
(* it hands to tx.GenerateOrBroadcastTxCLI, if any, is recorded.           *)
(*                                                                         *)
(* Conventions.  A Go string that the code only compares or passes on is a *)
(* TLA+ string.  A Go string that the code takes apart (strings.Split,     *)
(* hex decoding, strconv.ParseUint) is a sequence of atoms, an atom being  *)
(* a non-empty piece of text.  An error is a sequence of text fragments    *)
(* (fmt.Errorf's concatenation is \o), the nil error is the empty          *)
(* sequence.  A Go pointer or optional value is <<>> (nil) or <<v>>.       *)
(***************************************************************************)
EXTENDS Integers, Sequences, FiniteSets, TLC

VARIABLES pc, cmd, in, out

vars == <<pc, cmd, in, out>>

Nil == <<>>
Some(v) == <<v>>

\* Sequences over S of length lo..hi.
SeqsBetween(S, lo, hi) == UNION {[1..n -> S] : n \in lo..hi}

(***************************************************************************)
(* Bounds of the model.                                                    *)
(***************************************************************************)
MaxAddrs == 2       \* entries of --instantiate-anyof-addresses
MaxCodeIDLen == 2   \* characters of the code id argument
MaxSaltLen == 3     \* characters of the salt argument
MaxFilterLen == 1   \* entries of --allow-msg-keys / --allow-raw-msgs
MaxCalls == 2       \* largest --max-calls value
MaxArgsLen == 7     \* atoms of the code_hash:permission arguments of grant store-code

(***************************************************************************)
(* The texts the model draws arguments and flag values from.               *)
(***************************************************************************)
\* --from: the sender, a good address.
Sender == "wasm1sender"
\* The positional arguments: the code id (as characters), the init message,
\* the salt (as characters), the grantee and the grant kind.
CodeIDChars == {"0", "1", "x"}
InitMsg == "{}"
SaltChars == {"a", "g"}
AddressArgs == {"wasm1bbb", "bogus"}
KindTexts == {"execution", "migration", "instantiation"}
\* The flag values.  "wasm1aaa", "WASM1AAA" and "wasm1bbb" are bech32
\* addresses, "mykey" and "badkey" are names of keys in the keyring.
AmountTexts == {"", "100uwasm", "2uwasm,1stake", "bogus"}
LabelTexts == {"", "local"}
AdminTexts == {"", "wasm1aaa", "WASM1AAA", "mykey", "alice", "badkey"}
BoolTexts == {"", "true", "false", "1", "yes"}
AnyOfTexts == {"wasm1aaa", "bogus"}
MsgKeys == {"release"}
RawMsgs == {"{\"burn\":{}}"}
MaxFundsTexts == {"", " ", "100uwasm", "bogus"}
Expirations == {0, -1, 1667979596}
\* What os.ReadFile and the ioutils tests find at the path of store.
FileKinds == {"missing", "wasm", "gzip", "other"}

(***************************************************************************)
(* Library functions the handlers call, on the texts the model draws.      *)
(***************************************************************************)

\* sdk.AccAddressFromBech32: bech32 text to address bytes.  Bech32 accepts
\* an all-lowercase or all-uppercase text; the empty text and any other text
\* of the model is rejected.
AccAddressFromBech32(s) ==
    CASE s = "" -> [addr |-> "", err |-> <<"empty address string is not allowed">>]
      [] s = "wasm1aaa" -> [addr |-> "A", err |-> Nil]
      [] s = "WASM1AAA" -> [addr |-> "A", err |-> Nil]
      [] s = "wasm1bbb" -> [addr |-> "B", err |-> Nil]
      [] OTHER -> [addr |-> "", err |-> <<"decoding bech32 failed">>]

\* sdk.AccAddress.String: address bytes to their lowercase bech32 text.
AddrString(a) ==
    CASE a = "A" -> "wasm1aaa"
      [] a = "B" -> "wasm1bbb"
      [] a = "K" -> "wasm1kkk"
      [] OTHER -> ""

\* strconv.ParseBool.
ParseBool(s) ==
    IF s \in {"1", "t", "T", "TRUE", "true", "True"} THEN [ok |-> TRUE, err |-> Nil]
    ELSE IF s \in {"0", "f", "F", "FALSE", "false", "False"} THEN [ok |-> FALSE, err |-> Nil]
    ELSE [ok |-> FALSE, err |-> <<"strconv.ParseBool: parsing ", s, ": invalid syntax">>]

\* sdk.ParseCoinsNormalized: the empty or blank text is the empty coin set;
\* coins are sorted by denomination.
ParseCoinsNormalized(s) ==
    CASE s = "" -> [coins |-> <<>>, err |-> Nil]
      [] s = " " -> [coins |-> <<>>, err |-> Nil]
      [] s = "100uwasm" -> [coins |-> <<[denom |-> "uwasm", amount |-> 100]>>, err |-> Nil]
      [] s = "2uwasm,1stake" ->
            [coins |-> <<[denom |-> "stake", amount |-> 1], [denom |-> "uwasm", amount |-> 2]>>,
             err |-> Nil]
      [] OTHER -> [coins |-> <<>>, err |-> <<"invalid decimal coin expression: ", s>>]

\* Decimal digits and their values.
DigitValue(c) ==
    CASE c = "0" -> 0 [] c = "1" -> 1 [] c = "2" -> 2 [] c = "3" -> 3 [] c = "4" -> 4
      [] c = "5" -> 5 [] c = "6" -> 6 [] c = "7" -> 7 [] c = "8" -> 8 [] c = "9" -> 9
      [] OTHER -> -1

RECURSIVE DecimalValue(_)
DecimalValue(s) ==
    IF s = <<>> THEN 0
    ELSE DecimalValue(SubSeq(s, 1, Len(s) - 1)) * 10 + DigitValue(s[Len(s)])

\* strconv.ParseUint(s, 10, 64) on a sequence of characters: the empty text
\* and any character that is no decimal digit (a sign included) are a syntax
\* error.  The texts of the model are too short to exceed 64 bits.
ParseUint(s) ==
    IF s = <<>> \/ \E i \in 1..Len(s) : DigitValue(s[i]) < 0
    THEN [val |-> 0, err |-> <<"strconv.ParseUint: parsing ">> \o s \o <<": invalid syntax">>]
    ELSE [val |-> DecimalValue(s), err |-> Nil]

\* keyring.Keyring.Key(name) followed by Record.GetAddress: the keyring of the
\* model holds the key "mykey" and the key "badkey", whose public key cannot
\* be unpacked; every other name is not found.
KeyringKey(name) ==
    CASE name = "mykey" -> [found |-> TRUE, addr |-> "K", addrErr |-> Nil]
      [] name = "badkey" -> [found |-> TRUE, addr |-> "", addrErr |-> <<"unable to unpack pubkey">>]
      [] OTHER -> [found |-> FALSE, addr |-> "", addrErr |-> Nil]

\* Value of a hexadecimal digit, -1 for any other character.
HexValue(c) ==
    CASE c = "a" -> 10 [] c = "b" -> 11 [] c = "c" -> 12 [] c = "d" -> 13 [] c = "e" -> 14
      [] c = "f" -> 15 [] OTHER -> DigitValue(c)

\* encoding/hex.DecodeString on a sequence of characters: every pair of
\* characters is one byte; a character that is no hex digit is an
\* InvalidByteError, an odd length is ErrLength.
HexDecodeString(s) ==
    LET n == Len(s) \div 2
        badPair == \E j \in 1..n : HexValue(s[2 * j - 1]) < 0 \/ HexValue(s[2 * j]) < 0
    IN  IF badPair THEN [bytes |-> Nil, err |-> <<"encoding/hex: invalid byte">>]
        ELSE IF Len(s) % 2 = 1
        THEN IF HexValue(s[Len(s)]) < 0
             THEN [bytes |-> Nil, err |-> <<"encoding/hex: invalid byte">>]
             ELSE [bytes |-> Nil, err |-> <<"encoding/hex: odd length hex string">>]
        ELSE [bytes |-> [j \in 1..n |-> 16 * HexValue(s[2 * j - 1]) + HexValue(s[2 * j])],
              err |-> Nil]

\* argumentDecoder.DecodeString of the decoder newArgDecoder(hex.DecodeString)
\* builds: the salt argument is hex-decoded.
DecodeString(s) == HexDecodeString(s)

\* strings.Split(s, sep) on a sequence of atoms: the pieces between the
\* separators, one more than there are separators.
RECURSIVE Split(_, _)
Split(s, sep) ==
    IF \A i \in 1..Len(s) : s[i] # sep THEN <<s>>
    ELSE LET i == CHOOSE k \in 1..Len(s) : s[k] = sep /\ \A j \in 1..(k - 1) : s[j] # sep
         IN  <<SubSeq(s, 1, i - 1)>> \o Split(SubSeq(s, i + 1, Len(s)), sep)

\* time.Unix(sec, 0)
TimeUnix(sec) == [sec |-> sec, nsec |-> 0]

(***************************************************************************)
(* Permission encoder.                                                     *)
(***************************************************************************)

\* The address loop of parseAccessConfigFlags: the error of the first entry
\* that does not parse, as <<entry, error>>, or Nil.
RECURSIVE FirstBadAddr(_)
FirstBadAddr(addrs) ==
    IF addrs = <<>> THEN Nil
    ELSE IF AccAddressFromBech32(Head(addrs)).err # Nil
         THEN <<"parse ", Head(addrs), ": ">> \o AccAddressFromBech32(Head(addrs)).err
         ELSE FirstBadAddr(Tail(addrs))

\* types.AccessTypeAnyOfAddresses.With(addrs...)
AnyOfAddresses(addrs) ==
    [permission |-> "AnyOfAddresses",
     addresses |-> [i \in 1..Len(addrs) |-> AddrString(AccAddressFromBech32(addrs[i]).addr)]]

AllowEverybody == [permission |-> "Everybody", addresses |-> <<>>]
AllowNobody == [permission |-> "Nobody", addresses |-> <<>>]

\* A variant of parseAccessConfigFlags that reads a malformed boolean text
\* as false instead of failing.
parseAccessConfigFlagsLenient(f) ==
    LET every == ParseBool(f.everybody)
        nobody == ParseBool(f.nobody)
    IN  IF Len(f.anyOf) # 0
        THEN IF FirstBadAddr(f.anyOf) # Nil
             THEN [perm |-> Nil, err |-> FirstBadAddr(f.anyOf)]
             ELSE [perm |-> Some(AnyOfAddresses(f.anyOf)), err |-> Nil]
        ELSE IF f.onlyAddr # ""
        THEN [perm |-> Nil, err |-> <<"not supported anymore. Use: ", "instantiate-anyof-addresses">>]
        ELSE IF f.everybody # "" /\ every.ok
        THEN [perm |-> Some(AllowEverybody), err |-> Nil]
        ELSE IF f.nobody # "" /\ nobody.ok
        THEN [perm |-> Some(AllowNobody), err |-> Nil]
        ELSE [perm |-> Nil, err |-> Nil]

\* A variant of parseAccessConfigFlags that tests the nobody flag before the
\* everybody flag.
parseAccessConfigFlagsSwapped(f) ==
    LET every == ParseBool(f.everybody)
        nobody == ParseBool(f.nobody)
    IN  IF Len(f.anyOf) # 0
        THEN IF FirstBadAddr(f.anyOf) # Nil
             THEN [perm |-> Nil, err |-> FirstBadAddr(f.anyOf)]
             ELSE [perm |-> Some(AnyOfAddresses(f.anyOf)), err |-> Nil]
        ELSE IF f.onlyAddr # ""
        THEN [perm |-> Nil, err |-> <<"not supported anymore. Use: ", "instantiate-anyof-addresses">>]
        ELSE IF f.nobody # "" /\ nobody.err # Nil
        THEN [perm |-> Nil,
              err |-> <<"boolean value expected for instantiate by nobody: ">> \o nobody.err]
        ELSE IF f.nobody # "" /\ nobody.ok
        THEN [perm |-> Some(AllowNobody), err |-> Nil]
        ELSE IF f.everybody # "" /\ every.err # Nil
        THEN [perm |-> Nil,
              err |-> <<"boolean value expected for instantiate by everybody: ">> \o every.err]
        ELSE IF f.everybody # "" /\ every.ok
        THEN [perm |-> Some(AllowEverybody), err |-> Nil]
        ELSE [perm |-> Nil, err |-> Nil]

\* parseAccessConfigFlags(flags): f.anyOf, f.onlyAddr, f.everybody, f.nobody
\* are the values of the four instantiate-permission flags (all registered by
\* addInstantiatePermissionFlags, so the flag getters do not fail).
parseAccessConfigFlags(f) ==
    LET every == ParseBool(f.everybody)
        nobody == ParseBool(f.nobody)
    IN  IF Len(f.anyOf) # 0
        THEN IF FirstBadAddr(f.anyOf) # Nil
             THEN [perm |-> Nil, err |-> FirstBadAddr(f.anyOf)]
             ELSE [perm |-> Some(AnyOfAddresses(f.anyOf)), err |-> Nil]
        ELSE IF f.onlyAddr # ""
        THEN [perm |-> Nil, err |-> <<"not supported anymore. Use: ", "instantiate-anyof-addresses">>]
        ELSE IF f.everybody # "" /\ every.err # Nil
        THEN [perm |-> Nil,
              err |-> <<"boolean value expected for instantiate by everybody: ">> \o every.err]
        ELSE IF f.everybody # "" /\ every.ok
        THEN [perm |-> Some(AllowEverybody), err |-> Nil]
        ELSE IF f.nobody # "" /\ nobody.err # Nil
        THEN [perm |-> Nil,
              err |-> <<"boolean value expected for instantiate by nobody: ">> \o nobody.err]
        ELSE IF f.nobody # "" /\ nobody.ok
        THEN [perm |-> Some(AllowNobody), err |-> Nil]
        ELSE [perm |-> Nil, err |-> Nil]

\* parseStoreCodeArgs(file, sender, flags).  f.file is what os.ReadFile and
\* the ioutils tests find at the path; env.gzipOk and env.validateOk are the
\* outcomes of ioutils.GzipIt and of MsgStoreCode.ValidateBasic.
parseStoreCodeArgs(f, sender, env) ==
    LET p == parseAccessConfigFlags(f)
        msg == [Sender |-> sender, WASMByteCode |-> "gzip", InstantiatePermission |-> p.perm]
    IN  IF f.file = "missing"
        THEN [msg |-> Nil, err |-> <<"open: no such file or directory">>, perm |-> Nil]
        ELSE IF f.file = "wasm" /\ ~env.gzipOk
        THEN [msg |-> Nil, err |-> <<"gzip failed">>, perm |-> Nil]
        ELSE IF f.file = "other"
        THEN [msg |-> Nil, err |-> <<"invalid input file. Use wasm binary or gzip">>, perm |-> Nil]
        ELSE IF p.err # Nil
        THEN [msg |-> Nil, err |-> p.err, perm |-> Some(p)]
        ELSE [msg |-> Some(msg),
              err |-> IF env.validateOk THEN Nil ELSE <<"MsgStoreCode.ValidateBasic failed">>,
              perm |-> Some(p)]

(***************************************************************************)
(* Instantiate request builder.                                            *)
(***************************************************************************)

\* The admin resolution of parseInstantiateArgs (the block under
\* `if adminStr != ""`): the admin text as the message will carry it, the
\* error, and whether the keyring was asked.
ResolveAdmin(adminStr) ==
    LET a == AccAddressFromBech32(adminStr)
        k == KeyringKey(adminStr)
    IN  IF adminStr = "" THEN [admin |-> "", err |-> Nil, keyLookup |-> FALSE]
        ELSE IF a.err = Nil THEN [admin |-> AddrString(a.addr), err |-> Nil, keyLookup |-> FALSE]
        ELSE IF ~k.found
        THEN [admin |-> "", err |-> <<"admin ", adminStr, ".info: key not found">>, keyLookup |-> TRUE]
        ELSE IF k.addrErr # Nil THEN [admin |-> "", err |-> k.addrErr, keyLookup |-> TRUE]
        ELSE [admin |-> AddrString(k.addr), err |-> Nil, keyLookup |-> TRUE]

\* The result of parseInstantiateArgs: the message (a pointer, nil on the
\* early returns), the error, and the collaborators called on the way.
InstantiateResult(msg, err, calls) == [msg |-> msg, err |-> err, calls |-> calls]

\* A variant of parseInstantiateArgs without the two admin checks.
parseInstantiateArgsNoAdminCheck(rawCodeID, initMsg, sender, f, env) ==
    LET code == ParseUint(rawCodeID)
        amount == ParseCoinsNormalized(f.amount)
        adm == ResolveAdmin(f.admin)
        msg == [Sender |-> sender, CodeID |-> code.val, Label |-> f.label,
                Funds |-> amount.coins, Msg |-> initMsg, Admin |-> adm.admin]
        lookups == IF adm.keyLookup THEN <<"kr.Key">> ELSE <<>>
    IN  IF code.err # Nil THEN InstantiateResult(Nil, code.err, <<>>)
        ELSE IF amount.err # Nil THEN InstantiateResult(Nil, <<"amount: ">> \o amount.err, <<>>)
        ELSE IF f.label = ""
        THEN InstantiateResult(Nil, <<"label is required on all contracts">>, <<>>)
        ELSE IF adm.err # Nil THEN InstantiateResult(Nil, adm.err, lookups)
        ELSE InstantiateResult(Some(msg),
                 IF env.validateOk THEN Nil ELSE <<"MsgInstantiateContract.ValidateBasic failed">>,
                 lookups \o <<"ValidateBasic">>)

\* A variant of parseInstantiateArgs that resolves the admin before the
\* check that --admin and --no-admin are not both given.
parseInstantiateArgsResolveFirst(rawCodeID, initMsg, sender, f, env) ==
    LET code == ParseUint(rawCodeID)
        amount == ParseCoinsNormalized(f.amount)
        adm == ResolveAdmin(f.admin)
        msg == [Sender |-> sender, CodeID |-> code.val, Label |-> f.label,
                Funds |-> amount.coins, Msg |-> initMsg, Admin |-> adm.admin]
        lookups == IF adm.keyLookup THEN <<"kr.Key">> ELSE <<>>
    IN  IF code.err # Nil THEN InstantiateResult(Nil, code.err, <<>>)
        ELSE IF amount.err # Nil THEN InstantiateResult(Nil, <<"amount: ">> \o amount.err, <<>>)
        ELSE IF f.label = ""
        THEN InstantiateResult(Nil, <<"label is required on all contracts">>, <<>>)
        ELSE IF f.admin = "" /\ ~f.noAdmin
        THEN InstantiateResult(Nil,
                 <<"you must set an admin or explicitly pass --no-admin to make it immutable (wasmd issue #719)">>,
                 <<>>)
        ELSE IF adm.err # Nil THEN InstantiateResult(Nil, adm.err, lookups)
        ELSE IF f.admin # "" /\ f.noAdmin
        THEN InstantiateResult(Nil,
                 <<"you set an admin and passed --no-admin, those cannot both be true">>, lookups)
        ELSE InstantiateResult(Some(msg),
                 IF env.validateOk THEN Nil ELSE <<"MsgInstantiateContract.ValidateBasic failed">>,
                 lookups \o <<"ValidateBasic">>)

\* parseInstantiateArgs(rawCodeID, initMsg, kr, sender, flags): f.amount,
\* f.label, f.admin, f.noAdmin are the values of the four flags (all
\* registered by the commands, so the flag getters do not fail);
\* env.validateOk is the outcome of MsgInstantiateContract.ValidateBasic.
parseInstantiateArgs(rawCodeID, initMsg, sender, f, env) ==
    LET code == ParseUint(rawCodeID)
        amount == ParseCoinsNormalized(f.amount)
        adm == ResolveAdmin(f.admin)
        msg == [Sender |-> sender, CodeID |-> code.val, Label |-> f.label,
                Funds |-> amount.coins, Msg |-> initMsg, Admin |-> adm.admin]
        lookups == IF adm.keyLookup THEN <<"kr.Key">> ELSE <<>>
    IN  IF code.err # Nil THEN InstantiateResult(Nil, code.err, <<>>)
        ELSE IF amount.err # Nil THEN InstantiateResult(Nil, <<"amount: ">> \o amount.err, <<>>)
        ELSE IF f.label = ""
        THEN InstantiateResult(Nil, <<"label is required on all contracts">>, <<>>)
        ELSE IF f.admin = "" /\ ~f.noAdmin
        THEN InstantiateResult(Nil,
                 <<"you must set an admin or explicitly pass --no-admin to make it immutable (wasmd issue #719)">>,
                 <<>>)
        ELSE IF f.admin # "" /\ f.noAdmin
        THEN InstantiateResult(Nil,
                 <<"you set an admin and passed --no-admin, those cannot both be true">>, <<>>)
        ELSE IF adm.err # Nil THEN InstantiateResult(Nil, adm.err, lookups)
        ELSE InstantiateResult(Some(msg),
                 IF env.validateOk THEN Nil ELSE <<"MsgInstantiateContract.ValidateBasic failed">>,
                 lookups \o <<"ValidateBasic">>)

(***************************************************************************)
(* Authorization grant builder.                                            *)
(***************************************************************************)

\* types.NewCombinedLimit, types.NewMaxFundsLimit, types.NewMaxCallsLimit
NewCombinedLimit(maxCalls, maxFunds) ==
    [variant |-> "CombinedLimit", calls |-> maxCalls, amounts |-> maxFunds]
NewMaxFundsLimit(maxFunds) == [variant |-> "MaxFundsLimit", calls |-> 0, amounts |-> maxFunds]
NewMaxCallsLimit(maxCalls) == [variant |-> "MaxCallsLimit", calls |-> maxCalls, amounts |-> <<>>]

\* types.NewAllowAllMessagesFilter, types.NewAcceptedMessageKeysFilter,
\* types.NewAcceptedMessagesFilter
NewAllowAllMessagesFilter == [variant |-> "AllowAllMessagesFilter", keys |-> <<>>, messages |-> <<>>]
NewAcceptedMessageKeysFilter(keys) ==
    [variant |-> "AcceptedMessageKeysFilter", keys |-> keys, messages |-> <<>>]
NewAcceptedMessagesFilter(msgs) ==
    [variant |-> "AcceptedMessagesFilter", keys |-> <<>>, messages |-> msgs]

\* types.RawContractMessage(msg): the bytes of the text.
RawContractMessage(m) == [raw |-> m]

\* A variant of ResolveLimit whose call-count branch does not ask for
\* --max-funds to be unset.
ResolveLimitFundsIgnored(maxFundsStr, maxCalls, noTokenTransfer) ==
    LET maxFunds == ParseCoinsNormalized(maxFundsStr)
    IN  IF maxFundsStr # "" /\ maxCalls # 0 /\ ~noTokenTransfer
        THEN IF maxFunds.err # Nil THEN [limit |-> Nil, err |-> <<"max funds: ">> \o maxFunds.err]
             ELSE [limit |-> Some(NewCombinedLimit(maxCalls, maxFunds.coins)), err |-> Nil]
        ELSE IF maxFundsStr # "" /\ maxCalls = 0 /\ ~noTokenTransfer
        THEN IF maxFunds.err # Nil THEN [limit |-> Nil, err |-> <<"max funds: ">> \o maxFunds.err]
             ELSE [limit |-> Some(NewMaxFundsLimit(maxFunds.coins)), err |-> Nil]
        ELSE IF maxCalls # 0 /\ noTokenTransfer
        THEN [limit |-> Some(NewMaxCallsLimit(maxCalls)), err |-> Nil]
        ELSE [limit |-> Nil, err |-> <<"invalid limit setup">>]

\* A variant of ResolveLimit whose funds-only branch does not ask for
\* --no-token-transfer to be off.
ResolveLimitTransferIgnored(maxFundsStr, maxCalls, noTokenTransfer) ==
    LET maxFunds == ParseCoinsNormalized(maxFundsStr)
    IN  IF maxFundsStr # "" /\ maxCalls # 0 /\ ~noTokenTransfer
        THEN IF maxFunds.err # Nil THEN [limit |-> Nil, err |-> <<"max funds: ">> \o maxFunds.err]
             ELSE [limit |-> Some(NewCombinedLimit(maxCalls, maxFunds.coins)), err |-> Nil]
        ELSE IF maxFundsStr # "" /\ maxCalls = 0
        THEN IF maxFunds.err # Nil THEN [limit |-> Nil, err |-> <<"max funds: ">> \o maxFunds.err]
             ELSE [limit |-> Some(NewMaxFundsLimit(maxFunds.coins)), err |-> Nil]
        ELSE IF maxCalls # 0 /\ noTokenTransfer /\ maxFundsStr = ""
        THEN [limit |-> Some(NewMaxCallsLimit(maxCalls)), err |-> Nil]
        ELSE [limit |-> Nil, err |-> <<"invalid limit setup">>]

\* The limit switch of GrantAuthorizationCmd.
ResolveLimit(maxFundsStr, maxCalls, noTokenTransfer) ==
    LET maxFunds == ParseCoinsNormalized(maxFundsStr)
    IN  IF maxFundsStr # "" /\ maxCalls # 0 /\ ~noTokenTransfer
        THEN IF maxFunds.err # Nil THEN [limit |-> Nil, err |-> <<"max funds: ">> \o maxFunds.err]
             ELSE [limit |-> Some(NewCombinedLimit(maxCalls, maxFunds.coins)), err |-> Nil]
        ELSE IF maxFundsStr # "" /\ maxCalls = 0 /\ ~noTokenTransfer
        THEN IF maxFunds.err # Nil THEN [limit |-> Nil, err |-> <<"max funds: ">> \o maxFunds.err]
             ELSE [limit |-> Some(NewMaxFundsLimit(maxFunds.coins)), err |-> Nil]
        ELSE IF maxCalls # 0 /\ noTokenTransfer /\ maxFundsStr = ""
        THEN [limit |-> Some(NewMaxCallsLimit(maxCalls)), err |-> Nil]
        ELSE [limit |-> Nil, err |-> <<"invalid limit setup">>]

\* A variant of ResolveFilter without the case that rejects more than one
\* selector.
ResolveFilterFirstWins(allowAllMsgs, msgKeys, rawMsgs) ==
    IF allowAllMsgs THEN [filter |-> Some(NewAllowAllMessagesFilter), err |-> Nil]
    ELSE IF Len(msgKeys) # 0 THEN [filter |-> Some(NewAcceptedMessageKeysFilter(msgKeys)), err |-> Nil]
    ELSE IF Len(rawMsgs) # 0
    THEN [filter |-> Some(NewAcceptedMessagesFilter(
                              [i \in 1..Len(rawMsgs) |-> RawContractMessage(rawMsgs[i])])),
          err |-> Nil]
    ELSE [filter |-> Nil, err |-> <<"invalid filter setup">>]

\* The filter switch of GrantAuthorizationCmd.
ResolveFilter(allowAllMsgs, msgKeys, rawMsgs) ==
    IF \/ allowAllMsgs /\ Len(msgKeys) # 0
       \/ allowAllMsgs /\ Len(rawMsgs) # 0
       \/ Len(msgKeys) # 0 /\ Len(rawMsgs) # 0
    THEN [filter |-> Nil, err |-> <<"cannot set more than one filter within one grant">>]
    ELSE IF allowAllMsgs THEN [filter |-> Some(NewAllowAllMessagesFilter), err |-> Nil]
    ELSE IF Len(msgKeys) # 0 THEN [filter |-> Some(NewAcceptedMessageKeysFilter(msgKeys)), err |-> Nil]
    ELSE IF Len(rawMsgs) # 0
    THEN [filter |-> Some(NewAcceptedMessagesFilter(
                              [i \in 1..Len(rawMsgs) |-> RawContractMessage(rawMsgs[i])])),
          err |-> Nil]
    ELSE [filter |-> Nil, err |-> <<"invalid filter setup">>]

\* types.NewContractGrant(contract, limit, filter)
NewContractGrant(contract, limit, filter) ==
    [contract |-> AddrString(contract), limit |-> limit, filter |-> filter]

\* A variant of ResolveKind that wraps every kind but "execution" as a
\* migration.
ResolveKindDefaultMigration(kind, grant) ==
    IF kind = "execution"
    THEN [authorization |-> Some([type |-> "ContractExecutionAuthorization", grants |-> <<grant>>]),
          err |-> Nil]
    ELSE [authorization |-> Some([type |-> "ContractMigrationAuthorization", grants |-> <<grant>>]),
          err |-> Nil]

\* The grant-kind switch of GrantAuthorizationCmd (on args[1]), with
\* types.NewContractExecutionAuthorization and
\* types.NewContractMigrationAuthorization.
ResolveKind(kind, grant) ==
    IF kind = "execution"
    THEN [authorization |-> Some([type |-> "ContractExecutionAuthorization", grants |-> <<grant>>]),
          err |-> Nil]
    ELSE IF kind = "migration"
    THEN [authorization |-> Some([type |-> "ContractMigrationAuthorization", grants |-> <<grant>>]),
          err |-> Nil]
    ELSE [authorization |-> Nil, err |-> <<kind, " authorization type not supported">>]

\* A variant of getExpireTime that takes the zero timestamp as the epoch.
getExpireTimeEpoch(exp) == [expire |-> Some(TimeUnix(exp)), err |-> Nil]

\* getExpireTime(cmd): exp is the value of --expiration.
getExpireTime(exp) ==
    IF exp = 0 THEN [expire |-> Nil, err |-> Nil]
    ELSE [expire |-> Some(TimeUnix(exp)), err |-> Nil]

\* authz.NewMsgGrant(granter, grantee, authorization, expiration)
NewMsgGrant(granter, grantee, authorization, expire) ==
    [granter |-> granter, grantee |-> AddrString(grantee), authorization |-> authorization,
     expiration |-> expire]

(***************************************************************************)
(* Store-code grant parser.                                                *)
(***************************************************************************)

\* parseAccessConfig(raw): "nobody", "everybody", or a comma-separated list
\* of addresses.
parseAccessConfig(raw) ==
    LET parts == Split(raw, ",")
        texts == [i \in 1..Len(parts) |-> IF Len(parts[i]) = 1 THEN parts[i][1] ELSE "not an address"]
        bad == \E i \in 1..Len(parts) : AccAddressFromBech32(texts[i]).err # Nil
    IN  IF raw = <<"nobody">> THEN [config |-> AllowNobody, err |-> Nil]
        ELSE IF raw = <<"everybody">> THEN [config |-> AllowEverybody, err |-> Nil]
        ELSE IF bad THEN [config |-> AllowNobody, err |-> <<"unable to parse address">>]
        ELSE [config |-> AnyOfAddresses(texts), err |-> Nil]

\* One iteration of the loop of parseStoreCodeGrants: the grant of token c.
CodeGrantOf(c) ==
    LET parts == Split(c, ":")
        accessConfig == parseAccessConfig(parts[2])
    IN  IF Len(parts) # 2 THEN [grant |-> Nil, err |-> <<"invalid format">>]
        ELSE IF parts[2] = <<"*">>
        THEN [grant |-> Some([CodeHash |-> parts[1], InstantiatePermission |-> Nil]), err |-> Nil]
        ELSE IF accessConfig.err # Nil THEN [grant |-> Nil, err |-> accessConfig.err]
        ELSE [grant |-> Some([CodeHash |-> parts[1],
                              InstantiatePermission |-> Some(accessConfig.config)]),
              err |-> Nil]

\* The loop of parseStoreCodeGrants from token i on, grants holding the
\* grants of the tokens before i.
RECURSIVE StoreCodeGrantsFrom(_, _, _)
StoreCodeGrantsFrom(args, i, grants) ==
    IF i > Len(args) THEN [grants |-> grants, err |-> Nil]
    ELSE IF CodeGrantOf(args[i]).err # Nil THEN [grants |-> Nil, err |-> CodeGrantOf(args[i]).err]
    ELSE StoreCodeGrantsFrom(args, i + 1, grants \o CodeGrantOf(args[i]).grant)

\* A variant of the loop that keeps one grant per code hash, the first.
RECURSIVE StoreCodeGrantsDedup(_, _, _)
StoreCodeGrantsDedup(args, i, grants) ==
    IF i > Len(args) THEN [grants |-> grants, err |-> Nil]
    ELSE IF CodeGrantOf(args[i]).err # Nil THEN [grants |-> Nil, err |-> CodeGrantOf(args[i]).err]
    ELSE IF \E j \in 1..Len(grants) : grants[j].CodeHash = CodeGrantOf(args[i]).grant[1].CodeHash
    THEN StoreCodeGrantsDedup(args, i + 1, grants)
    ELSE StoreCodeGrantsDedup(args, i + 1, grants \o CodeGrantOf(args[i]).grant)

\* A variant of parseStoreCodeGrants that merges the grants of one hash.
parseStoreCodeGrantsDedup(args) == StoreCodeGrantsDedup(args, 1, <<>>)

\* parseStoreCodeGrants(args)
parseStoreCodeGrants(args) == StoreCodeGrantsFrom(args, 1, <<>>)

(***************************************************************************)
(* Inputs.                                                                 *)
(***************************************************************************)

\* Outcomes of the collaborators a handler may reach: client.GetClientTxContext,
\* ioutils.GzipIt, ValidateBasic, tx.GenerateOrBroadcastTxCLI.
StoreEnvs == [ctxOk : BOOLEAN, gzipOk : BOOLEAN, validateOk : BOOLEAN, broadcastOk : BOOLEAN]
InstantiateEnvs == [ctxOk : BOOLEAN, validateOk : BOOLEAN, broadcastOk : BOOLEAN]

CtxErr == <<"client context">>
BroadcastErr == <<"broadcast failed">>

InstantiateInputs ==
    [codeID : SeqsBetween(CodeIDChars, 0, MaxCodeIDLen), amount : AmountTexts,
     label : LabelTexts, admin : AdminTexts, noAdmin : BOOLEAN]

Instantiate2Inputs ==
    [codeID : SeqsBetween(CodeIDChars, 0, MaxCodeIDLen), amount : AmountTexts,
     label : LabelTexts, admin : AdminTexts, noAdmin : BOOLEAN,
     salt : SeqsBetween(SaltChars, 0, MaxSaltLen), fixMsg : BOOLEAN]

GrantInputs ==
    [grantee : AddressArgs, kind : KindTexts, contract : {"wasm1aaa", "bogus"},
     msgKeys : SeqsBetween(MsgKeys, 0, MaxFilterLen),
     rawMsgs : SeqsBetween(RawMsgs, 0, MaxFilterLen),
     maxFunds : MaxFundsTexts, maxCalls : 0..MaxCalls, exp : Expirations,
     allowAllMsgs : BOOLEAN, noTokenTransfer : BOOLEAN]

GrantEnvs == [ctxOk : BOOLEAN, grantOk : BOOLEAN, msgGrantOk : BOOLEAN, broadcastOk : BOOLEAN]

\* The code_hash:permission arguments, args[1:]: the words of a text of at
\* most MaxArgsLen atoms, " " separating one argument from the next.  There
\* is at least one (cobra.MinimumNArgs(2)); an argument may be empty.
TokenAtoms == {":", "*", "nobody", " "}
TokenLists == {Split(line, " ") : line \in SeqsBetween(TokenAtoms, 0, MaxArgsLen)}

GrantStoreCodeInputs == [grantee : AddressArgs, tokens : TokenLists, exp : Expirations]

GrantStoreCodeEnvs == [ctxOk : BOOLEAN, msgGrantOk : BOOLEAN, broadcastOk : BOOLEAN]

StoreInputs ==
    [file : FileKinds, anyOf : SeqsBetween(AnyOfTexts, 0, MaxAddrs), onlyAddr : {"", "wasm1aaa"},
     everybody : BoolTexts, nobody : BoolTexts]

\* What a handler leaves behind: its returned error, the message handed to
\* tx.GenerateOrBroadcastTxCLI, and the results of the steps it reached.
Outcome(err, sent, steps) == [err |-> err, sent |-> sent, steps |-> steps]

NoSteps == [reached |-> <<>>]

(***************************************************************************)
(* Command handlers.                                                       *)
(***************************************************************************)

\* StoreCodeCmd's RunE.
StoreCodeRun(f, env) ==
    LET r == parseStoreCodeArgs(f, Sender, env)
        steps == [reached |-> <<"parseStoreCodeArgs">>, perm |-> r.perm]
    IN  IF ~env.ctxOk THEN Outcome(CtxErr, Nil, NoSteps)
        ELSE IF r.err # Nil THEN Outcome(r.err, Nil, steps)
        ELSE Outcome(IF env.broadcastOk THEN Nil ELSE BroadcastErr, r.msg, steps)

\* InstantiateContractCmd's RunE.
InstantiateRun(f, env) ==
    LET r == parseInstantiateArgs(f.codeID, InitMsg, Sender, f, env)
        steps == [reached |-> <<"parseInstantiateArgs">>, built |-> r]
    IN  IF ~env.ctxOk THEN Outcome(CtxErr, Nil, NoSteps)
        ELSE IF r.err # Nil THEN Outcome(r.err, Nil, steps)
        ELSE Outcome(IF env.broadcastOk THEN Nil ELSE BroadcastErr, r.msg, steps)

\* A variant of InstantiateContract2Cmd's RunE that decodes the salt after
\* parseInstantiateArgs has run.
Instantiate2RunSaltLast(f, env) ==
    LET salt == DecodeString(f.salt)
        data == parseInstantiateArgs(f.codeID, InitMsg, Sender, f, env)
        msg == [Sender |-> data.msg[1].Sender, Admin |-> data.msg[1].Admin,
                CodeID |-> data.msg[1].CodeID, Label |-> data.msg[1].Label,
                Msg |-> data.msg[1].Msg, Funds |-> data.msg[1].Funds,
                Salt |-> salt.bytes, FixMsg |-> f.fixMsg]
        steps == [reached |-> <<"parseInstantiateArgs", "DecodeString">>, built |-> data]
    IN  IF ~env.ctxOk THEN Outcome(CtxErr, Nil, NoSteps)
        ELSE IF data.err # Nil
        THEN Outcome(data.err, Nil, [reached |-> <<"parseInstantiateArgs">>, built |-> data])
        ELSE IF salt.err # Nil THEN Outcome(<<"salt: ">> \o salt.err, Nil, steps)
        ELSE Outcome(IF env.broadcastOk THEN Nil ELSE BroadcastErr, Some(msg), steps)

\* InstantiateContract2Cmd's RunE.  decoder.DecodeString is the decoder the
\* command builds with newArgDecoder(hex.DecodeString).
Instantiate2Run(f, env) ==
    LET salt == DecodeString(f.salt)
        data == parseInstantiateArgs(f.codeID, InitMsg, Sender, f, env)
        msg == [Sender |-> data.msg[1].Sender, Admin |-> data.msg[1].Admin,
                CodeID |-> data.msg[1].CodeID, Label |-> data.msg[1].Label,
                Msg |-> data.msg[1].Msg, Funds |-> data.msg[1].Funds,
                Salt |-> salt.bytes, FixMsg |-> f.fixMsg]
        steps == [reached |-> <<"DecodeString", "parseInstantiateArgs">>, built |-> data]
    IN  IF ~env.ctxOk THEN Outcome(CtxErr, Nil, NoSteps)
        ELSE IF salt.err # Nil
        THEN Outcome(<<"salt: ">> \o salt.err, Nil, [reached |-> <<"DecodeString">>])
        ELSE IF data.err # Nil THEN Outcome(data.err, Nil, steps)
        ELSE Outcome(IF env.broadcastOk THEN Nil ELSE BroadcastErr, Some(msg), steps)

\* The steps a grant handler has reached, with the results of the limit and
\* the filter switch (Nil when not reached).
GrantSteps(reached, limit, filter) == [reached |-> reached, limit |-> limit, filter |-> filter]

\* GrantAuthorizationCmd's RunE from the limit switch on.
GrantResolve(f, env, grantee, contract) ==
    LET l == ResolveLimit(f.maxFunds, f.maxCalls, f.noTokenTransfer)
        fl == ResolveFilter(f.allowAllMsgs, f.msgKeys, f.rawMsgs)
        grant == NewContractGrant(contract, l.limit[1], fl.filter[1])
        k == ResolveKind(f.kind, grant)
        e == getExpireTime(f.exp)
        grantMsg == NewMsgGrant(Sender, grantee, k.authorization[1], e.expire)
    IN  IF l.err # Nil THEN Outcome(l.err, Nil, GrantSteps(<<"limit">>, Some(l), Nil))
        ELSE IF fl.err # Nil
        THEN Outcome(fl.err, Nil, GrantSteps(<<"limit", "filter">>, Some(l), Some(fl)))
        ELSE IF ~env.grantOk
        THEN Outcome(<<"NewContractGrant failed">>, Nil,
                     GrantSteps(<<"limit", "filter", "grant">>, Some(l), Some(fl)))
        ELSE IF k.err # Nil
        THEN Outcome(k.err, Nil,
                     GrantSteps(<<"limit", "filter", "grant", "kind">>, Some(l), Some(fl)))
        ELSE IF ~env.msgGrantOk
        THEN Outcome(<<"NewMsgGrant failed">>, Nil,
                     GrantSteps(<<"limit", "filter", "grant", "kind", "expire", "msg">>,
                                Some(l), Some(fl)))
        ELSE Outcome(IF env.broadcastOk THEN Nil ELSE BroadcastErr, Some(grantMsg),
                     GrantSteps(<<"limit", "filter", "grant", "kind", "expire", "msg", "broadcast">>,
                                Some(l), Some(fl)))

\* A variant of GrantAuthorizationCmd's RunE without the zero check on
\* --expiration.
GrantRunNoExpirationCheck(f, env) ==
    LET grantee == AccAddressFromBech32(f.grantee)
        contract == AccAddressFromBech32(f.contract)
    IN  IF ~env.ctxOk THEN Outcome(CtxErr, Nil, GrantSteps(<<>>, Nil, Nil))
        ELSE IF grantee.err # Nil THEN Outcome(grantee.err, Nil, GrantSteps(<<>>, Nil, Nil))
        ELSE IF contract.err # Nil THEN Outcome(contract.err, Nil, GrantSteps(<<>>, Nil, Nil))
        ELSE GrantResolve(f, env, grantee.addr, contract.addr)

\* GrantAuthorizationCmd's RunE.
GrantRun(f, env) ==
    LET grantee == AccAddressFromBech32(f.grantee)
        contract == AccAddressFromBech32(f.contract)
    IN  IF ~env.ctxOk THEN Outcome(CtxErr, Nil, GrantSteps(<<>>, Nil, Nil))
        ELSE IF grantee.err # Nil THEN Outcome(grantee.err, Nil, GrantSteps(<<>>, Nil, Nil))
        ELSE IF contract.err # Nil THEN Outcome(contract.err, Nil, GrantSteps(<<>>, Nil, Nil))
        ELSE IF f.exp = 0
        THEN Outcome(<<"expiration must be set">>, Nil, GrantSteps(<<>>, Nil, Nil))
        ELSE GrantResolve(f, env, grantee.addr, contract.addr)

\* GrantStoreCodeAuthorizationCmd's RunE.
GrantStoreCodeRun(f, env) ==
    LET grantee == AccAddressFromBech32(f.grantee)
        g == parseStoreCodeGrants(f.tokens)
        authorization == [type |-> "StoreCodeAuthorization", grants |-> g.grants]
        e == getExpireTime(f.exp)
        grantMsg == NewMsgGrant(Sender, grantee.addr, authorization, e.expire)
        parsed == [reached |-> <<"parseStoreCodeGrants">>, parsed |-> g]
        steps == [reached |-> <<"parseStoreCodeGrants", "getExpireTime">>, parsed |-> g,
                  expire |-> e]
    IN  IF ~env.ctxOk THEN Outcome(CtxErr, Nil, NoSteps)
        ELSE IF grantee.err # Nil THEN Outcome(grantee.err, Nil, NoSteps)
        ELSE IF g.err # Nil THEN Outcome(g.err, Nil, parsed)
        ELSE IF e.err # Nil THEN Outcome(e.err, Nil, steps)
        ELSE IF ~env.msgGrantOk THEN Outcome(<<"NewMsgGrant failed">>, Nil, steps)
        ELSE Outcome(IF env.broadcastOk THEN Nil ELSE BroadcastErr, Some(grantMsg), steps)

StoreCode ==
    /\ pc = "idle"
    /\ \E f \in StoreInputs, env \in StoreEnvs :
          /\ in' = f
          /\ out' = StoreCodeRun(f, env)
    /\ cmd' = "store"
    /\ pc' = "done"

Instantiate ==
    /\ pc = "idle"
    /\ \E f \in InstantiateInputs, env \in InstantiateEnvs :
          /\ in' = f
          /\ out' = InstantiateRun(f, env)
    /\ cmd' = "instantiate"
    /\ pc' = "done"

Instantiate2 ==
    /\ pc = "idle"
    /\ \E f \in Instantiate2Inputs, env \in InstantiateEnvs :
          /\ in' = f
          /\ out' = Instantiate2Run(f, env)
    /\ cmd' = "instantiate2"
    /\ pc' = "done"

GrantAuthorization ==
    /\ pc = "idle"
    /\ \E f \in GrantInputs, env \in GrantEnvs :
          /\ in' = f
          /\ out' = GrantRun(f, env)
    /\ cmd' = "grant contract"
    /\ pc' = "done"

GrantStoreCodeAuthorization ==
    /\ pc = "idle"
    /\ \E f \in GrantStoreCodeInputs, env \in GrantStoreCodeEnvs :
          /\ in' = f
          /\ out' = GrantStoreCodeRun(f, env)
    /\ cmd' = "grant store-code"
    /\ pc' = "done"

Init ==
    /\ pc = "idle"
    /\ cmd = "none"
    /\ in = Nil
    /\ out = Outcome(Nil, Nil, NoSteps)

Next ==
    \/ StoreCode
    \/ Instantiate
    \/ Instantiate2
    \/ GrantAuthorization
    \/ GrantStoreCodeAuthorization

Spec == Init /\ [][Next]_vars

\* One command alone, and the three commands with groups of exclusive flags.
SpecStore == Init /\ [][StoreCode]_vars
SpecInstantiate == Init /\ [][Instantiate]_vars
SpecInstantiate2 == Init /\ [][Instantiate2]_vars
SpecGrant == Init /\ [][GrantAuthorization]_vars
SpecGrantStoreCode == Init /\ [][GrantStoreCodeAuthorization]_vars
NextExclusive ==
    \/ StoreCode
    \/ Instantiate
    \/ GrantAuthorization
SpecExclusive == Init /\ [][NextExclusive]_vars

(***************************************************************************)
(* Properties.                                                             *)
(***************************************************************************)

\* The handler has run the named step.
Reached(step) == \E i \in 1..Len(out.steps.reached) : out.steps.reached[i] = step

ParsesTrue(s) == s # "" /\ ParseBool(s).err = Nil /\ ParseBool(s).ok
Malformed(s) == s # "" /\ ParseBool(s).err # Nil

\* parseInstantiateArgs has run (from instantiate or instantiate2); Built is
\* what it returned.
BuilderRan == pc = "done" /\ cmd \in {"instantiate", "instantiate2"} /\ Reached("parseInstantiateArgs")
Built == out.steps.built

OtherwiseValid ==
    /\ ParseUint(in.codeID).err = Nil
    /\ ParseCoinsNormalized(in.amount).err = Nil
    /\ in.label # ""

ExactlyOneAdminChoice == (in.admin # "") # in.noAdmin

\* The admin text parses as an address or names a usable key.
AdminResolvable(s) ==
    \/ AccAddressFromBech32(s).err = Nil
    \/ KeyringKey(s).found /\ KeyringKey(s).addrErr = Nil

ValidateInstantiateErr == <<"MsgInstantiateContract.ValidateBasic failed">>

\* C1, as stated: with code id, amount and label valid (and the structural
\* validator accepting), parseInstantiateArgs succeeds if and only if exactly
\* one of {admin non-empty, no-admin true} holds, and on success the
\* request's admin is empty exactly when no-admin was true.
C1_AdminIffExactlyOne ==
    (BuilderRan /\ OtherwiseValid /\ Built.err # ValidateInstantiateErr) =>
        /\ (Built.err = Nil) <=> ExactlyOneAdminChoice
        /\ Built.err = Nil => ((Built.msg[1].Admin = "") <=> in.noAdmin)

\* C1, amended: with code id, amount and label valid, both-empty and
\* both-set admin inputs always fail; with exactly one of the two set the
\* builder fails with the admin resolution error when the admin text neither
\* parses as an address nor resolves through the keyring, and otherwise
\* succeeds unless structural validation rejects the request; on success the
\* request's admin is empty exactly when no-admin was true.
C1_AdminInvariant ==
    (BuilderRan /\ OtherwiseValid) =>
        /\ (in.admin = "" /\ ~in.noAdmin) =>
              /\ Built.msg = Nil
              /\ Built.err = <<"you must set an admin or explicitly pass --no-admin to make it immutable (wasmd issue #719)">>
        /\ (in.admin # "" /\ in.noAdmin) =>
              /\ Built.msg = Nil
              /\ Built.err = <<"you set an admin and passed --no-admin, those cannot both be true">>
        /\ Built.err = Nil => ExactlyOneAdminChoice
        /\ (ExactlyOneAdminChoice /\ in.admin # "" /\ ~AdminResolvable(in.admin)) =>
              /\ Built.msg = Nil
              /\ Built.err # Nil
              /\ Built.err # ValidateInstantiateErr
        /\ (ExactlyOneAdminChoice /\ (in.admin = "" \/ AdminResolvable(in.admin))) =>
              Built.err \in {Nil, ValidateInstantiateErr}
        /\ Built.err = Nil => ((Built.msg[1].Admin = "") <=> in.noAdmin)

\* A key name given as admin, without --no-admin, is resolved through the
\* keyring and the builder succeeds.
C1_Witness ==
    /\ BuilderRan /\ OtherwiseValid
    /\ in.admin = "mykey" /\ ~in.noAdmin
    /\ Built.err = Nil
    /\ Built.msg[1].Admin = "wasm1kkk"

\* The limit switch of the grant command has run; Limit is its result.
GrantDone == pc = "done" /\ cmd = "grant contract"
LimitReached == GrantDone /\ Reached("limit")
Limit == out.steps.limit[1]
InvalidLimit == [limit |-> Nil, err |-> <<"invalid limit setup">>]

\* C2, as stated: the limit is a function of (max-funds set, max-calls
\* non-zero, no-token-transfer): Combined, MaxFunds or MaxCalls on the three
\* rows of the table, "invalid limit setup" and no limit on the other five.
C2_LimitTable ==
    LimitReached =>
        LET funds == in.maxFunds # ""
            calls == in.maxCalls # 0
            coins == ParseCoinsNormalized(in.maxFunds).coins
        IN  Limit =
              IF funds /\ calls /\ ~in.noTokenTransfer
              THEN [limit |-> <<[variant |-> "CombinedLimit", calls |-> in.maxCalls, amounts |-> coins]>>,
                    err |-> Nil]
              ELSE IF funds /\ ~calls /\ ~in.noTokenTransfer
              THEN [limit |-> <<[variant |-> "MaxFundsLimit", calls |-> 0, amounts |-> coins]>>,
                    err |-> Nil]
              ELSE IF ~funds /\ calls /\ in.noTokenTransfer
              THEN [limit |-> <<[variant |-> "MaxCallsLimit", calls |-> in.maxCalls, amounts |-> <<>>]>>,
                    err |-> Nil]
              ELSE InvalidLimit

\* C2, amended: as the table, except that on the two rows that take
\* max-funds the text must parse as a coin set; when it does not, the switch
\* fails with a "max funds: ..." error and produces no limit.
C2_LimitTableParsed ==
    LimitReached =>
        LET funds == in.maxFunds # ""
            calls == in.maxCalls # 0
            parsed == ParseCoinsNormalized(in.maxFunds)
            badFunds == [limit |-> Nil, err |-> <<"max funds: ">> \o parsed.err]
        IN  Limit =
              IF funds /\ calls /\ ~in.noTokenTransfer
              THEN IF parsed.err # Nil THEN badFunds
                   ELSE [limit |-> <<[variant |-> "CombinedLimit", calls |-> in.maxCalls,
                                      amounts |-> parsed.coins]>>,
                         err |-> Nil]
              ELSE IF funds /\ ~calls /\ ~in.noTokenTransfer
              THEN IF parsed.err # Nil THEN badFunds
                   ELSE [limit |-> <<[variant |-> "MaxFundsLimit", calls |-> 0,
                                      amounts |-> parsed.coins]>>,
                         err |-> Nil]
              ELSE IF ~funds /\ calls /\ in.noTokenTransfer
              THEN [limit |-> <<[variant |-> "MaxCallsLimit", calls |-> in.maxCalls, amounts |-> <<>>]>>,
                    err |-> Nil]
              ELSE InvalidLimit

\* max-calls and max-funds without no-token-transfer give a combined limit.
C2_Witness ==
    /\ LimitReached
    /\ in.maxFunds = "100uwasm" /\ in.maxCalls = 2 /\ ~in.noTokenTransfer
    /\ Limit.err = Nil
    /\ Limit.limit[1].variant = "CombinedLimit"
    /\ Limit.limit[1].calls = 2
    /\ Limit.limit[1].amounts = <<[denom |-> "uwasm", amount |-> 100]>>

\* The filter switch of the grant command has run; Filter is its result.
FilterReached == GrantDone /\ Reached("filter")
Filter == out.steps.filter[1]
FilterSelectors ==
    (IF in.allowAllMsgs THEN 1 ELSE 0) + (IF Len(in.msgKeys) # 0 THEN 1 ELSE 0)
    + (IF Len(in.rawMsgs) # 0 THEN 1 ELSE 0)

\* C3: the filter switch yields exactly one variant or an error: one
\* selector set gives AllowAll, AcceptedKeys or AcceptedRawMessages; two or
\* more fail with "cannot set more than one filter within one grant" and no
\* filter; none fails with "invalid filter setup".
C3_FilterResolution ==
    FilterReached =>
        /\ FilterSelectors > 1 =>
              Filter = [filter |-> Nil, err |-> <<"cannot set more than one filter within one grant">>]
        /\ FilterSelectors = 0 => Filter = [filter |-> Nil, err |-> <<"invalid filter setup">>]
        /\ (FilterSelectors = 1 /\ in.allowAllMsgs) =>
              /\ Filter.err = Nil
              /\ Filter.filter = <<[variant |-> "AllowAllMessagesFilter", keys |-> <<>>, messages |-> <<>>]>>
        /\ (FilterSelectors = 1 /\ Len(in.msgKeys) # 0) =>
              /\ Filter.err = Nil
              /\ Filter.filter =
                    <<[variant |-> "AcceptedMessageKeysFilter", keys |-> in.msgKeys, messages |-> <<>>]>>
        /\ (FilterSelectors = 1 /\ Len(in.rawMsgs) # 0) =>
              /\ Filter.err = Nil
              /\ Filter.filter =
                    <<[variant |-> "AcceptedMessagesFilter", keys |-> <<>>,
                       messages |-> [i \in 1..Len(in.rawMsgs) |-> [raw |-> in.rawMsgs[i]]]]>>

\* allow-all-messages together with a message key is refused.
C3_Witness ==
    /\ FilterReached
    /\ in.allowAllMsgs /\ Len(in.msgKeys) # 0
    /\ Filter.filter = Nil
    /\ Filter.err = <<"cannot set more than one filter within one grant">>

ExpirationErr == <<"expiration must be set">>
GrantAddressesValid ==
    AccAddressFromBech32(in.grantee).err = Nil /\ AccAddressFromBech32(in.contract).err = Nil

\* C4: in the grant command a zero --expiration is rejected with
\* "expiration must be set" before the limit and the filter switch run,
\* whatever the limit and filter flags are (the client context and the two
\* address arguments being good, which the handler reads first); and every
\* grant message handed to tx.GenerateOrBroadcastTxCLI carries the time of
\* the given non-zero Unix timestamp.
C4_ExpirationFirst ==
    GrantDone =>
        /\ in.exp = 0 =>
              /\ ~Reached("limit") /\ ~Reached("filter")
              /\ out.steps.limit = Nil /\ out.steps.filter = Nil
              /\ out.sent = Nil
              /\ out.err # Nil
              /\ (out.err # CtxErr /\ GrantAddressesValid) => out.err = ExpirationErr
        /\ out.sent # Nil =>
              /\ in.exp # 0
              /\ Len(out.sent[1].expiration) = 1
              /\ out.sent[1].expiration[1].sec = in.exp
              /\ out.sent[1].expiration[1].nsec = 0

\* A zero expiration with limit and filter flags that are both invalid
\* reports the expiration.
C4_Witness ==
    /\ GrantDone
    /\ in.exp = 0
    /\ in.maxFunds = "" /\ in.maxCalls = 0
    /\ in.allowAllMsgs /\ Len(in.msgKeys) # 0
    /\ out.err = ExpirationErr

\* parseAccessConfigFlags has run (from store); Perm is what it returned.
PermReached == pc = "done" /\ cmd = "store" /\ Reached("parseStoreCodeArgs") /\ out.steps.perm # Nil
Perm == out.steps.perm[1]

\* The outcome of the anyOfAddresses rule: the address set, or the parse
\* error of an entry.
AnyOfOutcome ==
    \/ /\ Perm.err = Nil
       /\ \A i \in 1..Len(in.anyOf) : AccAddressFromBech32(in.anyOf[i]).err = Nil
       /\ Perm.perm = <<[permission |-> "AnyOfAddresses",
                         addresses |-> [i \in 1..Len(in.anyOf) |->
                                           AddrString(AccAddressFromBech32(in.anyOf[i]).addr)]]>>
    \/ /\ Perm.perm = Nil
       /\ \E i \in 1..Len(in.anyOf) :
             /\ AccAddressFromBech32(in.anyOf[i]).err # Nil
             /\ Perm.err = <<"parse ", in.anyOf[i], ": ">> \o AccAddressFromBech32(in.anyOf[i]).err

RemovedFlagOutcome ==
    Perm = [perm |-> Nil, err |-> <<"not supported anymore. Use: ", "instantiate-anyof-addresses">>]

EverybodyBoolErr ==
    [perm |-> Nil,
     err |-> <<"boolean value expected for instantiate by everybody: ">> \o ParseBool(in.everybody).err]
NobodyBoolErr ==
    [perm |-> Nil,
     err |-> <<"boolean value expected for instantiate by nobody: ">> \o ParseBool(in.nobody).err]
PermEverybody == [perm |-> <<[permission |-> "Everybody", addresses |-> <<>>]>>, err |-> Nil]
PermNobody == [perm |-> <<[permission |-> "Nobody", addresses |-> <<>>]>>, err |-> Nil]
PermDefault == [perm |-> Nil, err |-> Nil]

\* C5, as stated: for every flag combination, a non-empty anyOfAddresses
\* gives AnyOfAddresses or an entry's parse error; else a non-empty removed
\* flag fails; else everybody parsing as true gives Everybody; else nobody
\* parsing as true gives Nobody; else the result is nil with no error.
C5_Precedence ==
    PermReached =>
        IF Len(in.anyOf) # 0 THEN AnyOfOutcome
        ELSE IF in.onlyAddr # "" THEN RemovedFlagOutcome
        ELSE IF ParsesTrue(in.everybody) THEN Perm = PermEverybody
        ELSE IF ParsesTrue(in.nobody) THEN Perm = PermNobody
        ELSE Perm = PermDefault

\* C5, amended: the same precedence, with the two boolean texts read in
\* turn: a non-empty everybody text that is no boolean fails before
\* everybody is tested, and a non-empty nobody text that is no boolean
\* fails before nobody is tested; the result is nil with no error only when
\* neither flag parses as true and neither is malformed.
C5_PrecedenceWithParseErrors ==
    PermReached =>
        IF Len(in.anyOf) # 0 THEN AnyOfOutcome
        ELSE IF in.onlyAddr # "" THEN RemovedFlagOutcome
        ELSE IF Malformed(in.everybody) THEN Perm = EverybodyBoolErr
        ELSE IF ParsesTrue(in.everybody) THEN Perm = PermEverybody
        ELSE IF Malformed(in.nobody) THEN Perm = NobodyBoolErr
        ELSE IF ParsesTrue(in.nobody) THEN Perm = PermNobody
        ELSE Perm = PermDefault

\* everybody and nobody both true: everybody comes first.
C5_Witness ==
    /\ PermReached
    /\ Len(in.anyOf) = 0 /\ in.onlyAddr = ""
    /\ in.everybody = "true" /\ in.nobody = "true"
    /\ Perm = PermEverybody

\* parseStoreCodeGrants has run (from grant store-code); Parsed is what it
\* returned.
ParsedReached == pc = "done" /\ cmd = "grant store-code" /\ Reached("parseStoreCodeGrants")
Parsed == out.steps.parsed

Colons(tok) == Cardinality({i \in 1..Len(tok) : tok[i] = ":"})
ColonAt(tok) == CHOOSE i \in 1..Len(tok) : tok[i] = ":"
LeftPart(tok) == SubSeq(tok, 1, ColonAt(tok) - 1)
RightPart(tok) == SubSeq(tok, ColonAt(tok) + 1, Len(tok))
WellFormed(tok) == Colons(tok) = 1
PolicyParses(tok) == RightPart(tok) = <<"*">> \/ parseAccessConfig(RightPart(tok)).err = Nil

\* What C6 says of a successful parse: every token has exactly one colon,
\* and there is one grant per token, in order, with the left part as hash and
\* no permission exactly for the policy "*".
GrantsMirrorTokens ==
    Parsed.err = Nil =>
        /\ \A i \in 1..Len(in.tokens) : WellFormed(in.tokens[i])
        /\ Len(Parsed.grants) = Len(in.tokens)
        /\ \A i \in 1..Len(in.tokens) :
              /\ Parsed.grants[i].CodeHash = LeftPart(in.tokens[i])
              /\ (Parsed.grants[i].InstantiatePermission = Nil)
                    <=> (RightPart(in.tokens[i]) = <<"*">>)

\* C6, as stated: parseStoreCodeGrants succeeds only if every token has
\* exactly one colon; a token with none or with two or more fails the whole
\* parse with "invalid format" and no grants; a successful parse gives one
\* grant per token in order, duplicates kept.
C6_InvalidFormatAlways ==
    ParsedReached =>
        /\ GrantsMirrorTokens
        /\ (\E i \in 1..Len(in.tokens) : ~WellFormed(in.tokens[i])) =>
              Parsed = [grants |-> Nil, err |-> <<"invalid format">>]

\* C6, amended: a token with none or with two or more colons fails the
\* whole parse and leaves no grants; the error is "invalid format" unless an
\* earlier token's policy does not parse, and then it is that token's
\* error.  The rest as stated.
C6_StoreCodeGrants ==
    ParsedReached =>
        /\ GrantsMirrorTokens
        /\ \A i \in 1..Len(in.tokens) :
              ~WellFormed(in.tokens[i]) =>
                  /\ Parsed.grants = Nil
                  /\ Parsed.err # Nil
                  /\ (\A j \in 1..(i - 1) : WellFormed(in.tokens[j]) /\ PolicyParses(in.tokens[j]))
                        => Parsed.err = <<"invalid format">>
                  /\ Parsed.err # <<"invalid format">> =>
                        \E j \in 1..(i - 1) :
                            /\ WellFormed(in.tokens[j]) /\ ~PolicyParses(in.tokens[j])
                            /\ Parsed.err = parseAccessConfig(RightPart(in.tokens[j])).err

\* The same hash granted twice gives two grants.
C6_Witness ==
    /\ ParsedReached
    /\ in.tokens = << <<"nobody", ":", "*">>, <<"nobody", ":", "*">> >>
    /\ Parsed.err = Nil
    /\ Len(Parsed.grants) = 2
    /\ Parsed.grants[1] = [CodeHash |-> <<"nobody">>, InstantiatePermission |-> Nil]
    /\ Parsed.grants[2] = Parsed.grants[1]

\* C7: in instantiate2 a salt of odd length fails with the salt error before
\* anything else is validated: whatever the code id, amount, label, admin
\* and no-admin inputs are, the error is the salt error and
\* parseInstantiateArgs is not reached (the client context being there).
C7_OddSaltFirst ==
    (pc = "done" /\ cmd = "instantiate2" /\ Len(in.salt) % 2 = 1 /\ out.err # CtxErr) =>
        /\ Len(out.err) > 1
        /\ out.err[1] = "salt: "
        /\ out.steps.reached = <<"DecodeString">>
        /\ ~Reached("parseInstantiateArgs")
        /\ out.sent = Nil

\* An odd salt with a bad code id, an empty label and no admin choice:
\* the salt is reported.
C7_Witness ==
    /\ pc = "done" /\ cmd = "instantiate2"
    /\ in.salt = <<"a">>
    /\ in.codeID = <<"x">> /\ in.label = "" /\ in.admin = "" /\ ~in.noAdmin
    /\ in.amount = "bogus"
    /\ out.err = <<"salt: ", "encoding/hex: odd length hex string">>

PermissionSelectors ==
    (IF Len(in.anyOf) # 0 THEN 1 ELSE 0) + (IF ParsesTrue(in.everybody) THEN 1 ELSE 0)
    + (IF ParsesTrue(in.nobody) THEN 1 ELSE 0)

\* The admin, limit and filter groups fail closed.
AdminLimitFilterFailClosed ==
    /\ (BuilderRan /\ in.admin # "" /\ in.noAdmin) =>
          Built.err # Nil /\ Built.msg = Nil /\ out.sent = Nil
    /\ (LimitReached /\ in.noTokenTransfer /\ in.maxFunds # "") =>
          Limit.err # Nil /\ Limit.limit = Nil /\ out.sent = Nil
    /\ (FilterReached /\ FilterSelectors > 1) =>
          Filter.err # Nil /\ Filter.filter = Nil /\ out.sent = Nil

C9_MalformedAlwaysFails ==
    PermReached =>
        /\ Malformed(in.everybody) => (Perm = EverybodyBoolErr \/ (Malformed(in.nobody) /\ Perm = NobodyBoolErr))
        /\ Malformed(in.nobody) => (Perm = NobodyBoolErr \/ (Malformed(in.everybody) /\ Perm = EverybodyBoolErr))

\* C9, amended: a malformed boolean text fails only where the encoder
\* reads it: with anyOfAddresses and the removed flag empty, a malformed
\* everybody text is a parse error naming everybody, and a malformed nobody
\* text is a parse error naming nobody unless everybody is malformed or
\* parses as true.  With anyOfAddresses or the removed flag set, or with
\* everybody true, the malformed text is not read and the earlier rule
\* decides.
C9_MalformedFailsWhenRead ==
    PermReached =>
        /\ (Len(in.anyOf) = 0 /\ in.onlyAddr = "" /\ Malformed(in.everybody)) =>
              Perm = EverybodyBoolErr
        /\ (Len(in.anyOf) = 0 /\ in.onlyAddr = "" /\ Malformed(in.nobody)
             /\ ~Malformed(in.everybody) /\ ~ParsesTrue(in.everybody)) =>
              Perm = NobodyBoolErr
        /\ (Len(in.anyOf) = 0 /\ in.onlyAddr = "" /\ Malformed(in.nobody)
             /\ ParsesTrue(in.everybody)) =>
              Perm = PermEverybody
        /\ ((Malformed(in.everybody) \/ Malformed(in.nobody)) /\ Len(in.anyOf) # 0) => AnyOfOutcome
        /\ ((Malformed(in.everybody) \/ Malformed(in.nobody)) /\ Len(in.anyOf) = 0
             /\ in.onlyAddr # "") => RemovedFlagOutcome

\* everybody=false and a malformed nobody: the error names nobody.
C9_Witness ==
    /\ PermReached
    /\ Len(in.anyOf) = 0 /\ in.onlyAddr = ""
    /\ in.everybody = "false" /\ in.nobody = "yes"
    /\ Perm.perm = Nil
    /\ Perm.err = <<"boolean value expected for instantiate by nobody: ",
                    "strconv.ParseBool: parsing ", "yes", ": invalid syntax">>

UnsupportedKindErr == <<in.kind, " authorization type not supported">>

\* C10: the grant-kind switch, reached once limit, filter and grant are
\* built: "execution" wraps the grant as an execution authorization,
\* "migration" as a migration authorization, around the same ContractGrant;
\* any other token fails there with "<kind> authorization type not
\* supported"; and with such a token no grant message is ever handed to
\* tx.GenerateOrBroadcastTxCLI.
C10_GrantKind ==
    GrantDone =>
        /\ in.kind \notin {"execution", "migration"} =>
              /\ out.sent = Nil
              /\ out.err # Nil
              /\ Reached("kind") =>
                    out.err = UnsupportedKindErr /\ out.steps.reached[Len(out.steps.reached)] = "kind"
        /\ in.kind \in {"execution", "migration"} => out.err # UnsupportedKindErr
        /\ out.sent # Nil =>
              /\ Reached("kind")
              /\ out.sent[1].authorization.type =
                    (IF in.kind = "execution" THEN "ContractExecutionAuthorization"
                     ELSE "ContractMigrationAuthorization")
              /\ out.sent[1].authorization.grants =
                    <<[contract |-> AddrString(AccAddressFromBech32(in.contract).addr),
                       limit |-> Limit.limit[1], filter |-> Filter.filter[1]]>>

\* A grant of an unknown kind with good limit and filter flags is refused
\* at the switch.
C10_Witness ==
    /\ GrantDone
    /\ in.kind = "instantiation"
    /\ Reached("kind")
    /\ out.err = <<"instantiation", " authorization type not supported">>
    /\ out.sent = Nil

\* The defects of the input of parseInstantiateArgs, in the order of its
\* checks, and the error of each.
CodeIDDefect == ParseUint(in.codeID).err # Nil
AmountDefect == ParseCoinsNormalized(in.amount).err # Nil
LabelDefect == in.label = ""
AdminMissing == in.admin = "" /\ ~in.noAdmin
AdminConflict == in.admin # "" /\ in.noAdmin
AdminUnresolved == in.admin # "" /\ ~AdminResolvable(in.admin)

AdminMissingErr ==
    <<"you must set an admin or explicitly pass --no-admin to make it immutable (wasmd issue #719)">>
AdminConflictErr == <<"you set an admin and passed --no-admin, those cannot both be true">>
AdminResolutionErrs(s) == {<<"admin ", s, ".info: key not found">>, <<"unable to unpack pubkey">>}

KeyLookupCalled == \E i \in 1..Len(Built.calls) : Built.calls[i] = "kr.Key"
ValidatorCalled == \E i \in 1..Len(Built.calls) : Built.calls[i] = "ValidateBasic"

\* C11: parseInstantiateArgs returns the error of the earliest failing check
\* in the order code id, amount, label, admin missing, admin conflict, admin
\* resolution, structural validation, whatever later defects the input has;
\* the keyring is asked only when every earlier check passed and the admin
\* text did not parse as an address.
C11_FirstErrorOnly ==
    BuilderRan =>
        /\ CodeIDDefect => Built.err = ParseUint(in.codeID).err
        /\ (~CodeIDDefect /\ AmountDefect) =>
              Built.err = <<"amount: ">> \o ParseCoinsNormalized(in.amount).err
        /\ (~CodeIDDefect /\ ~AmountDefect /\ LabelDefect) =>
              Built.err = <<"label is required on all contracts">>
        /\ (~CodeIDDefect /\ ~AmountDefect /\ ~LabelDefect /\ AdminMissing) =>
              Built.err = AdminMissingErr
        /\ (~CodeIDDefect /\ ~AmountDefect /\ ~LabelDefect /\ AdminConflict) =>
              Built.err = AdminConflictErr
        /\ (~CodeIDDefect /\ ~AmountDefect /\ ~LabelDefect /\ ~AdminMissing /\ ~AdminConflict
              /\ AdminUnresolved) =>
              Built.err \in AdminResolutionErrs(in.admin)
        /\ (~CodeIDDefect /\ ~AmountDefect /\ ~LabelDefect /\ ~AdminMissing /\ ~AdminConflict
              /\ ~AdminUnresolved) =>
              /\ Built.err \in {Nil, ValidateInstantiateErr}
              /\ ValidatorCalled
        /\ (CodeIDDefect \/ AmountDefect \/ LabelDefect \/ AdminMissing \/ AdminConflict
              \/ AdminUnresolved) =>
              /\ Built.msg = Nil
              /\ ~ValidatorCalled
        /\ KeyLookupCalled =>
              /\ ~CodeIDDefect /\ ~AmountDefect /\ ~LabelDefect /\ ~AdminMissing /\ ~AdminConflict
              /\ AccAddressFromBech32(in.admin).err # Nil

\* An input with three defects (no label, an unknown key as admin, and
\* --no-admin with it) fails with the label error, the keyring not asked.
C11_Witness ==
    /\ BuilderRan
    /\ ~CodeIDDefect /\ ~AmountDefect /\ LabelDefect /\ AdminConflict /\ AdminUnresolved
    /\ Built.err = <<"label is required on all contracts">>
    /\ Built.calls = <<>>

\* getExpireTime has run in grant store-code; Expire is what it returned.
StoreCodeGrantDone == pc = "done" /\ cmd = "grant store-code"
ExpireReached == StoreCodeGrantDone /\ Reached("getExpireTime")
Expire == out.steps.expire
MsgGrantErr == <<"NewMsgGrant failed">>

\* C12: grant store-code does not reject --expiration 0: getExpireTime
\* returns no time and no error for 0, and the grant handed on carries no
\* expiration; for every other value it returns the time of that Unix
\* timestamp, which the grant carries; it never returns a time for 0 and
\* never returns none for a value other than 0.
C12_ZeroMeansNoExpiration ==
    /\ StoreCodeGrantDone => out.err # ExpirationErr
    /\ ExpireReached =>
          /\ Expire.err = Nil
          /\ (in.exp = 0) <=> (Expire.expire = Nil)
          /\ in.exp # 0 => Expire.expire = Some(TimeUnix(in.exp))
          /\ out.err \in {Nil, BroadcastErr, MsgGrantErr}
          /\ out.err # MsgGrantErr =>
                /\ out.sent # Nil
                /\ out.sent[1].expiration = Expire.expire

\* A grant with --expiration 0 is handed on for broadcast with no expiration.
C12_Witness ==
    /\ ExpireReached
    /\ in.exp = 0
    /\ out.err = Nil
    /\ out.sent # Nil
    /\ out.sent[1].expiration = Nil
    /\ out.sent[1].authorization.type = "StoreCodeAuthorization"

====
